---------------------------- MODULE Spec2Model ----------------------------
(***************************************************************************)
(* Model of src/server.py: the range scan find_all_flights_in_range, its   *)
(* date validation and date-pair enumeration, the per-pair provider query  *)
(* with its catch-all handler, and the offer processing (stop filter,      *)
(* price sort, truncation, flight_to_dict).                                *)
(*                                                                         *)
(* Representation.  A Python str that the code parses or renders is a      *)
(* sequence of one-character strings.  None is <<>> and a present value v  *)
(* is <<v>> (Some(v)).  A flight object is a record whose DOMAIN is the    *)
(* set of attributes the object has, so getattr(f, a, None) and f.a differ *)
(* exactly as in Python.  A datetime.date is [year, month, day].           *)
(*                                                                         *)
(* Characters.  A printable ASCII character is the one-character string    *)
(* of itself; tab, line feed, form feed and carriage return are "\t", "\n", *)
(* "\f" and "\r"; every other character is the string U+ followed by its   *)
(* code point in hexadecimal, at least four digits ("U+0669" is ARABIC-     *)
(* INDIC DIGIT NINE, "U+00A0" is NO-BREAK SPACE).                          *)
(***************************************************************************)
EXTENDS Integers, Sequences, FiniteSets, TLC

None == <<>>
Some(v) == <<v>>
IsNone(x) == x = <<>>
Val(x) == x[1]

Min(a, b) == IF a <= b THEN a ELSE b
Max(a, b) == IF a >= b THEN a ELSE b

(***************************************************************************)
(* Characters                                                              *)
(***************************************************************************)
\* [0-9] in a regular expression of _strptime
AsciiDigits == {"0", "1", "2", "3", "4", "5", "6", "7", "8", "9"}

\* the decimal digits of Unicode 14 (category Nd), each row a run 0..9
DecimalDigitRows ==
    {
      << "0", "1", "2", "3", "4",
         "5", "6", "7", "8", "9" >>,
      << "U+0660", "U+0661", "U+0662", "U+0663", "U+0664",
         "U+0665", "U+0666", "U+0667", "U+0668", "U+0669" >>,
      << "U+06F0", "U+06F1", "U+06F2", "U+06F3", "U+06F4",
         "U+06F5", "U+06F6", "U+06F7", "U+06F8", "U+06F9" >>,
      << "U+07C0", "U+07C1", "U+07C2", "U+07C3", "U+07C4",
         "U+07C5", "U+07C6", "U+07C7", "U+07C8", "U+07C9" >>,
      << "U+0966", "U+0967", "U+0968", "U+0969", "U+096A",
         "U+096B", "U+096C", "U+096D", "U+096E", "U+096F" >>,
      << "U+09E6", "U+09E7", "U+09E8", "U+09E9", "U+09EA",
         "U+09EB", "U+09EC", "U+09ED", "U+09EE", "U+09EF" >>,
      << "U+0A66", "U+0A67", "U+0A68", "U+0A69", "U+0A6A",
         "U+0A6B", "U+0A6C", "U+0A6D", "U+0A6E", "U+0A6F" >>,
      << "U+0AE6", "U+0AE7", "U+0AE8", "U+0AE9", "U+0AEA",
         "U+0AEB", "U+0AEC", "U+0AED", "U+0AEE", "U+0AEF" >>,
      << "U+0B66", "U+0B67", "U+0B68", "U+0B69", "U+0B6A",
         "U+0B6B", "U+0B6C", "U+0B6D", "U+0B6E", "U+0B6F" >>,
      << "U+0BE6", "U+0BE7", "U+0BE8", "U+0BE9", "U+0BEA",
         "U+0BEB", "U+0BEC", "U+0BED", "U+0BEE", "U+0BEF" >>,
      << "U+0C66", "U+0C67", "U+0C68", "U+0C69", "U+0C6A",
         "U+0C6B", "U+0C6C", "U+0C6D", "U+0C6E", "U+0C6F" >>,
      << "U+0CE6", "U+0CE7", "U+0CE8", "U+0CE9", "U+0CEA",
         "U+0CEB", "U+0CEC", "U+0CED", "U+0CEE", "U+0CEF" >>,
      << "U+0D66", "U+0D67", "U+0D68", "U+0D69", "U+0D6A",
         "U+0D6B", "U+0D6C", "U+0D6D", "U+0D6E", "U+0D6F" >>,
      << "U+0DE6", "U+0DE7", "U+0DE8", "U+0DE9", "U+0DEA",
         "U+0DEB", "U+0DEC", "U+0DED", "U+0DEE", "U+0DEF" >>,
      << "U+0E50", "U+0E51", "U+0E52", "U+0E53", "U+0E54",
         "U+0E55", "U+0E56", "U+0E57", "U+0E58", "U+0E59" >>,
      << "U+0ED0", "U+0ED1", "U+0ED2", "U+0ED3", "U+0ED4",
         "U+0ED5", "U+0ED6", "U+0ED7", "U+0ED8", "U+0ED9" >>,
      << "U+0F20", "U+0F21", "U+0F22", "U+0F23", "U+0F24",
         "U+0F25", "U+0F26", "U+0F27", "U+0F28", "U+0F29" >>,
      << "U+1040", "U+1041", "U+1042", "U+1043", "U+1044",
         "U+1045", "U+1046", "U+1047", "U+1048", "U+1049" >>,
      << "U+1090", "U+1091", "U+1092", "U+1093", "U+1094",
         "U+1095", "U+1096", "U+1097", "U+1098", "U+1099" >>,
      << "U+17E0", "U+17E1", "U+17E2", "U+17E3", "U+17E4",
         "U+17E5", "U+17E6", "U+17E7", "U+17E8", "U+17E9" >>,
      << "U+1810", "U+1811", "U+1812", "U+1813", "U+1814",
         "U+1815", "U+1816", "U+1817", "U+1818", "U+1819" >>,
      << "U+1946", "U+1947", "U+1948", "U+1949", "U+194A",
         "U+194B", "U+194C", "U+194D", "U+194E", "U+194F" >>,
      << "U+19D0", "U+19D1", "U+19D2", "U+19D3", "U+19D4",
         "U+19D5", "U+19D6", "U+19D7", "U+19D8", "U+19D9" >>,
      << "U+1A80", "U+1A81", "U+1A82", "U+1A83", "U+1A84",
         "U+1A85", "U+1A86", "U+1A87", "U+1A88", "U+1A89" >>,
      << "U+1A90", "U+1A91", "U+1A92", "U+1A93", "U+1A94",
         "U+1A95", "U+1A96", "U+1A97", "U+1A98", "U+1A99" >>,
      << "U+1B50", "U+1B51", "U+1B52", "U+1B53", "U+1B54",
         "U+1B55", "U+1B56", "U+1B57", "U+1B58", "U+1B59" >>,
      << "U+1BB0", "U+1BB1", "U+1BB2", "U+1BB3", "U+1BB4",
         "U+1BB5", "U+1BB6", "U+1BB7", "U+1BB8", "U+1BB9" >>,
      << "U+1C40", "U+1C41", "U+1C42", "U+1C43", "U+1C44",
         "U+1C45", "U+1C46", "U+1C47", "U+1C48", "U+1C49" >>,
      << "U+1C50", "U+1C51", "U+1C52", "U+1C53", "U+1C54",
         "U+1C55", "U+1C56", "U+1C57", "U+1C58", "U+1C59" >>,
      << "U+A620", "U+A621", "U+A622", "U+A623", "U+A624",
         "U+A625", "U+A626", "U+A627", "U+A628", "U+A629" >>,
      << "U+A8D0", "U+A8D1", "U+A8D2", "U+A8D3", "U+A8D4",
         "U+A8D5", "U+A8D6", "U+A8D7", "U+A8D8", "U+A8D9" >>,
      << "U+A900", "U+A901", "U+A902", "U+A903", "U+A904",
         "U+A905", "U+A906", "U+A907", "U+A908", "U+A909" >>,
      << "U+A9D0", "U+A9D1", "U+A9D2", "U+A9D3", "U+A9D4",
         "U+A9D5", "U+A9D6", "U+A9D7", "U+A9D8", "U+A9D9" >>,
      << "U+A9F0", "U+A9F1", "U+A9F2", "U+A9F3", "U+A9F4",
         "U+A9F5", "U+A9F6", "U+A9F7", "U+A9F8", "U+A9F9" >>,
      << "U+AA50", "U+AA51", "U+AA52", "U+AA53", "U+AA54",
         "U+AA55", "U+AA56", "U+AA57", "U+AA58", "U+AA59" >>,
      << "U+ABF0", "U+ABF1", "U+ABF2", "U+ABF3", "U+ABF4",
         "U+ABF5", "U+ABF6", "U+ABF7", "U+ABF8", "U+ABF9" >>,
      << "U+FF10", "U+FF11", "U+FF12", "U+FF13", "U+FF14",
         "U+FF15", "U+FF16", "U+FF17", "U+FF18", "U+FF19" >>,
      << "U+104A0", "U+104A1", "U+104A2", "U+104A3", "U+104A4",
         "U+104A5", "U+104A6", "U+104A7", "U+104A8", "U+104A9" >>,
      << "U+10D30", "U+10D31", "U+10D32", "U+10D33", "U+10D34",
         "U+10D35", "U+10D36", "U+10D37", "U+10D38", "U+10D39" >>,
      << "U+11066", "U+11067", "U+11068", "U+11069", "U+1106A",
         "U+1106B", "U+1106C", "U+1106D", "U+1106E", "U+1106F" >>,
      << "U+110F0", "U+110F1", "U+110F2", "U+110F3", "U+110F4",
         "U+110F5", "U+110F6", "U+110F7", "U+110F8", "U+110F9" >>,
      << "U+11136", "U+11137", "U+11138", "U+11139", "U+1113A",
         "U+1113B", "U+1113C", "U+1113D", "U+1113E", "U+1113F" >>,
      << "U+111D0", "U+111D1", "U+111D2", "U+111D3", "U+111D4",
         "U+111D5", "U+111D6", "U+111D7", "U+111D8", "U+111D9" >>,
      << "U+112F0", "U+112F1", "U+112F2", "U+112F3", "U+112F4",
         "U+112F5", "U+112F6", "U+112F7", "U+112F8", "U+112F9" >>,
      << "U+11450", "U+11451", "U+11452", "U+11453", "U+11454",
         "U+11455", "U+11456", "U+11457", "U+11458", "U+11459" >>,
      << "U+114D0", "U+114D1", "U+114D2", "U+114D3", "U+114D4",
         "U+114D5", "U+114D6", "U+114D7", "U+114D8", "U+114D9" >>,
      << "U+11650", "U+11651", "U+11652", "U+11653", "U+11654",
         "U+11655", "U+11656", "U+11657", "U+11658", "U+11659" >>,
      << "U+116C0", "U+116C1", "U+116C2", "U+116C3", "U+116C4",
         "U+116C5", "U+116C6", "U+116C7", "U+116C8", "U+116C9" >>,
      << "U+11730", "U+11731", "U+11732", "U+11733", "U+11734",
         "U+11735", "U+11736", "U+11737", "U+11738", "U+11739" >>,
      << "U+118E0", "U+118E1", "U+118E2", "U+118E3", "U+118E4",
         "U+118E5", "U+118E6", "U+118E7", "U+118E8", "U+118E9" >>,
      << "U+11950", "U+11951", "U+11952", "U+11953", "U+11954",
         "U+11955", "U+11956", "U+11957", "U+11958", "U+11959" >>,
      << "U+11C50", "U+11C51", "U+11C52", "U+11C53", "U+11C54",
         "U+11C55", "U+11C56", "U+11C57", "U+11C58", "U+11C59" >>,
      << "U+11D50", "U+11D51", "U+11D52", "U+11D53", "U+11D54",
         "U+11D55", "U+11D56", "U+11D57", "U+11D58", "U+11D59" >>,
      << "U+11DA0", "U+11DA1", "U+11DA2", "U+11DA3", "U+11DA4",
         "U+11DA5", "U+11DA6", "U+11DA7", "U+11DA8", "U+11DA9" >>,
      << "U+16A60", "U+16A61", "U+16A62", "U+16A63", "U+16A64",
         "U+16A65", "U+16A66", "U+16A67", "U+16A68", "U+16A69" >>,
      << "U+16AC0", "U+16AC1", "U+16AC2", "U+16AC3", "U+16AC4",
         "U+16AC5", "U+16AC6", "U+16AC7", "U+16AC8", "U+16AC9" >>,
      << "U+16B50", "U+16B51", "U+16B52", "U+16B53", "U+16B54",
         "U+16B55", "U+16B56", "U+16B57", "U+16B58", "U+16B59" >>,
      << "U+1D7CE", "U+1D7CF", "U+1D7D0", "U+1D7D1", "U+1D7D2",
         "U+1D7D3", "U+1D7D4", "U+1D7D5", "U+1D7D6", "U+1D7D7" >>,
      << "U+1D7D8", "U+1D7D9", "U+1D7DA", "U+1D7DB", "U+1D7DC",
         "U+1D7DD", "U+1D7DE", "U+1D7DF", "U+1D7E0", "U+1D7E1" >>,
      << "U+1D7E2", "U+1D7E3", "U+1D7E4", "U+1D7E5", "U+1D7E6",
         "U+1D7E7", "U+1D7E8", "U+1D7E9", "U+1D7EA", "U+1D7EB" >>,
      << "U+1D7EC", "U+1D7ED", "U+1D7EE", "U+1D7EF", "U+1D7F0",
         "U+1D7F1", "U+1D7F2", "U+1D7F3", "U+1D7F4", "U+1D7F5" >>,
      << "U+1D7F6", "U+1D7F7", "U+1D7F8", "U+1D7F9", "U+1D7FA",
         "U+1D7FB", "U+1D7FC", "U+1D7FD", "U+1D7FE", "U+1D7FF" >>,
      << "U+1E140", "U+1E141", "U+1E142", "U+1E143", "U+1E144",
         "U+1E145", "U+1E146", "U+1E147", "U+1E148", "U+1E149" >>,
      << "U+1E2F0", "U+1E2F1", "U+1E2F2", "U+1E2F3", "U+1E2F4",
         "U+1E2F5", "U+1E2F6", "U+1E2F7", "U+1E2F8", "U+1E2F9" >>,
      << "U+1E950", "U+1E951", "U+1E952", "U+1E953", "U+1E954",
         "U+1E955", "U+1E956", "U+1E957", "U+1E958", "U+1E959" >>,
      << "U+1FBF0", "U+1FBF1", "U+1FBF2", "U+1FBF3", "U+1FBF4",
         "U+1FBF5", "U+1FBF6", "U+1FBF7", "U+1FBF8", "U+1FBF9" >> }

\* what \d matches in a str pattern and what int() takes for a digit
DecimalDigits == UNION { {row[i] : i \in 1..10} : row \in DecimalDigitRows }

DecimalDigitValues ==
    UNION { {<< row[i], i - 1 >> : i \in 1..10} : row \in DecimalDigitRows }

\* the decimal value of a digit character
DigitVal(c) ==
    CASE c = "0" -> 0 [] c = "1" -> 1 [] c = "2" -> 2 [] c = "3" -> 3
      [] c = "4" -> 4 [] c = "5" -> 5 [] c = "6" -> 6 [] c = "7" -> 7
      [] c = "8" -> 8 [] c = "9" -> 9
      [] OTHER -> CHOOSE v \in 0..9 : << c, v >> \in DecimalDigitValues

DigitChar(n) ==
    CASE n = 0 -> "0" [] n = 1 -> "1" [] n = 2 -> "2" [] n = 3 -> "3"
      [] n = 4 -> "4" [] n = 5 -> "5" [] n = 6 -> "6" [] n = 7 -> "7"
      [] n = 8 -> "8" [] n = 9 -> "9"

\* the characters str.strip() and int() treat as whitespace
Whitespace ==
    {
      "\t", "\n", "U+000B", "\f", "\r", " ", "U+0085", "U+00A0",
      "U+1680", "U+2000", "U+2001", "U+2002", "U+2003", "U+2004",
      "U+2005", "U+2006", "U+2007", "U+2008", "U+2009", "U+200A",
      "U+2028", "U+2029", "U+202F", "U+205F", "U+3000" }

RECURSIVE DigitsPrefixValue(_, _)
\* the decimal value of the first n characters of a sequence of digits
DigitsPrefixValue(s, n) ==
    IF n = 0 THEN 0
    ELSE 10 * DigitsPrefixValue(s, n - 1) + DigitVal(s[n])

\* int() of a sequence of digit characters (the fields of a date: at most 4)
DigitsValue(s) == DigitsPrefixValue(s, Len(s))

\* \d\d... : every character is a decimal digit
AllDigits(s) == \A i \in 1..Len(s) : s[i] \in DecimalDigits

(***************************************************************************)
(* datetime.date                                                           *)
(***************************************************************************)
IsLeap(y) == (y % 4 = 0) /\ ((y % 100 # 0) \/ (y % 400 = 0))

DaysInMonth(y, m) ==
    IF m = 2 THEN (IF IsLeap(y) THEN 29 ELSE 28)
    ELSE IF m \in {4, 6, 9, 11} THEN 30 ELSE 31

\* the days of a common year before each month
DaysBeforeMonthTable == << 0, 31, 59, 90, 120, 151, 181, 212, 243, 273, 304, 334 >>

DaysBeforeMonth(y, m) ==
    DaysBeforeMonthTable[m] + (IF m > 2 /\ IsLeap(y) THEN 1 ELSE 0)

DaysBeforeYear(y) ==
    (y - 1) * 365 + ((y - 1) \div 4) - ((y - 1) \div 100) + ((y - 1) \div 400)

\* date.toordinal(): the proleptic Gregorian day number
ToOrdinal(d) == DaysBeforeYear(d.year) + DaysBeforeMonth(d.year, d.month) + d.day

\* a comparison that looks at the day of the month only
DateGTByDay(d1, d2) == d1.day > d2.day

\* date comparison (d1 > d2 at line 268, d1 <= d2 at line 275)
DateLE(d1, d2) == ToOrdinal(d1) <= ToOrdinal(d2)
DateGT(d1, d2) == ~DateLE(d1, d2)

\* date.fromordinal(n): the date whose day number is n
FromOrdinal(n) ==
    CHOOSE d \in { [year |-> y, month |-> m,
                    day |-> n - DaysBeforeYear(y) - DaysBeforeMonth(y, m)] :
                   y \in ((n \div 366) + 1)..((n \div 365) + 1), m \in 1..12 } :
        d.day >= 1 /\ d.day <= DaysInMonth(d.year, d.month)

\* date.max
DateMax == [year |-> 9999, month |-> 12, day |-> 31]

\* date + datetime.timedelta(days=k) raises OverflowError: the day number of
\* the sum is not one of date.min .. date.max
AddDaysOverflows(d, k) ==
    ToOrdinal(d) + k < 1 \/ ToOrdinal(d) + k > ToOrdinal(DateMax)

OverflowErrorDate ==
    [type |-> "OverflowError",
     detail |-> << "d", "a", "t", "e", " ", "v", "a", "l", "u", "e", " ", "o", "u", "t", " ", "o", "f", " ", "r", "a", "n", "g", "e" >>]

\* an operation that raises has the record [raises |-> exception] for result
Raises(x) == "raises" \in DOMAIN x

\* date + datetime.timedelta(days=k): the date, or the OverflowError raised
AddDays(d, k) ==
    IF AddDaysOverflows(d, k) THEN [raises |-> OverflowErrorDate]
    ELSE CHOOSE r \in {FromOrdinal(n) : n \in {ToOrdinal(d) + k}} : TRUE

\* (return_date - depart_date).days
StayDuration(depart, ret) == ToOrdinal(ret) - ToOrdinal(depart)

(***************************************************************************)
(* datetime.datetime.strptime(s, '%Y-%m-%d').date()                        *)
(* %Y is \d\d\d\d, %m is 1[0-2]|0[1-9]|[1-9], %d is                        *)
(* 3[0-1]|[1-2]\d|0[1-9]|[1-9]| [1-9]; the whole string must be consumed   *)
(* and the fields must name a calendar date, else ValueError.  \d is any   *)
(* decimal digit of Unicode, a class such as [1-9] is ASCII only.          *)
(***************************************************************************)
MonthText(t) ==
    \/ Len(t) = 1 /\ t[1] \in AsciiDigits \ {"0"}
    \/ Len(t) = 2 /\ t[1] = "1" /\ t[2] \in {"0", "1", "2"}
    \/ Len(t) = 2 /\ t[1] = "0" /\ t[2] \in AsciiDigits \ {"0"}

DayText(t) ==
    \/ Len(t) = 1 /\ t[1] \in AsciiDigits \ {"0"}
    \/ Len(t) = 2 /\ t[1] = "3" /\ t[2] \in {"0", "1"}
    \/ Len(t) = 2 /\ t[1] \in {"1", "2"} /\ t[2] \in DecimalDigits
    \/ Len(t) = 2 /\ t[1] \in {"0", " "} /\ t[2] \in AsciiDigits \ {"0"}

\* int() of a matched %m or %d field (the blank of " [1-9]" is stripped)
FieldValue(t) == DigitsValue(SelectSeq(t, LAMBDA c : c # " "))

ValueError == [ok |-> FALSE]

Strptime(s) ==
    IF Len(s) < 8 \/ ~AllDigits(SubSeq(s, 1, 4)) \/ s[5] # "-"
    THEN ValueError
    ELSE CHOOSE parsed \in UNION {
            { IF s[p] # "-" \/ ~MonthText(mt) \/ ~DayText(dt)
              THEN ValueError
              ELSE IF \/ DigitsValue(SubSeq(s, 1, 4)) < 1
                      \/ FieldValue(dt) >
                            DaysInMonth(DigitsValue(SubSeq(s, 1, 4)), FieldValue(mt))
                   THEN ValueError
                   ELSE [ok |-> TRUE,
                         date |-> [year |-> DigitsValue(SubSeq(s, 1, 4)),
                                   month |-> FieldValue(mt),
                                   day |-> FieldValue(dt)]] :
                mt \in {SubSeq(s, 6, p - 1)}, dt \in {SubSeq(s, p + 1, Len(s))} } :
            p \in {IF s[7] = "-" THEN 7 ELSE 8} } : TRUE

\* %Y of the C library's strftime: the year in decimal, not padded
YearText(y) ==
    IF y >= 1000
    THEN << DigitChar(y \div 1000), DigitChar((y \div 100) % 10),
            DigitChar((y \div 10) % 10), DigitChar(y % 10) >>
    ELSE IF y >= 100
    THEN << DigitChar(y \div 100), DigitChar((y \div 10) % 10), DigitChar(y % 10) >>
    ELSE IF y >= 10
    THEN << DigitChar(y \div 10), DigitChar(y % 10) >>
    ELSE << DigitChar(y) >>

\* date.strftime('%Y-%m-%d'): %m and %d are two digits, zero-padded
Strftime(d) ==
    YearText(d.year) \o
    << "-", DigitChar(d.month \div 10), DigitChar(d.month % 10), "-",
       DigitChar(d.day \div 10), DigitChar(d.day % 10) >>

(***************************************************************************)
(* parse_price                                                             *)
(***************************************************************************)
\* the results of parse_price: float('inf'), or an int as its sign and the
\* decimal digits of its magnitude without leading zeros (<<>> for 0), so
\* that an int of any length is kept exactly
Inf == [inf |-> TRUE, neg |-> FALSE, mag |-> <<>>]
IntKey(neg, mag) == [inf |-> FALSE, neg |-> neg /\ mag # <<>>, mag |-> mag]

\* a < b on magnitudes
MagLT(a, b) ==
    \/ Len(a) < Len(b)
    \/ /\ Len(a) = Len(b)
       /\ \E i \in 1..Len(a) :
             a[i] < b[i] /\ \A j \in 1..(i - 1) : a[j] = b[j]

\* a < b on parse_price results (the comparison sorted() uses)
KeyLT(a, b) ==
    /\ ~a.inf
    /\ \/ b.inf
       \/ a.neg /\ ~b.neg
       \/ a.neg /\ b.neg /\ MagLT(b.mag, a.mag)
       \/ ~a.neg /\ ~b.neg /\ MagLT(a.mag, b.mag)

\* str.replace(c, '')
Remove(s, c) == SelectSeq(s, LAMBDA x : x # c)

\* the whitespace int() strips from both ends of its argument
StripWhitespace(s) ==
    CHOOSE t \in
        { IF keep = {} THEN <<>>
          ELSE SubSeq(s, CHOOSE i \in keep : \A j \in keep : i <= j,
                         CHOOSE i \in keep : \A j \in keep : j <= i) :
            keep \in {{i \in 1..Len(s) : s[i] \notin Whitespace}} } : TRUE

\* the digit part of an int() literal: digits, single underscores between them
IntBody(b) ==
    /\ b # <<>>
    /\ \A i \in 1..Len(b) : b[i] \in DecimalDigits \cup {"_"}
    /\ b[1] # "_" /\ b[Len(b)] # "_"
    /\ \A i \in 1..(Len(b) - 1) : ~(b[i] = "_" /\ b[i + 1] = "_")

\* sys.int_info.default_max_str_digits: a longer literal is a ValueError
MaxStrDigits == 4300

\* the digit values of a sequence of digit characters, leading zeros dropped
Magnitude(digits) ==
    CHOOSE mag \in
        { IF lead = {} THEN <<>>
          ELSE [k \in 1..(Len(digits) + 1 - (CHOOSE i \in lead : \A j \in lead : i <= j))
                  |-> DigitVal(digits[k - 1 + (CHOOSE i \in lead : \A j \in lead : i <= j)])]
               \o <<>> :
            lead \in {{i \in 1..Len(digits) : DigitVal(digits[i]) # 0}} } : TRUE

\* int(s): [ok |-> TRUE, n |-> value], or [ok |-> FALSE] for ValueError
PyInt(s) ==
    CHOOSE r \in UNION {
        { IF ~IntBody(b) \/ Len(Remove(b, "_")) > MaxStrDigits
          THEN [ok |-> FALSE, n |-> Inf]
          ELSE [ok |-> TRUE, n |-> IntKey(t[1] = "-", Magnitude(Remove(b, "_")))] :
            b \in {IF t # <<>> /\ t[1] \in {"+", "-"} THEN Tail(t) ELSE t} } :
        t \in {StripWhitespace(s)} } : TRUE

\* parse_price(price_str); price_str is None or Some(characters)
parse_price(price_str) ==
    IF IsNone(price_str) \/ Val(price_str) = <<>> THEN Inf
    ELSE CHOOSE key \in
            { IF r.ok THEN r.n ELSE Inf :
                r \in {PyInt(Remove(Remove(Val(price_str), "$"), ","))} } : TRUE

(***************************************************************************)
(* Flight objects and flight_to_dict                                       *)
(***************************************************************************)
FlightAttrs ==
    {"is_best", "name", "departure", "arrival", "arrival_time_ahead",
     "duration", "stops", "delay", "price"}

\* getattr(flight, a, None)
GetAttr(flight, a) == IF a \in DOMAIN flight THEN flight[a] ELSE None

flight_to_dict(flight) == [a \in FlightAttrs |-> GetAttr(flight, a)]

(***************************************************************************)
(* Offer processing: the body of the try block after get_flights returns   *)
(***************************************************************************)
\* [f for f in flights_list if getattr(f, "stops", None) == stops]
FilterStops(flights_list, stops) ==
    SelectSeq(flights_list, LAMBDA f : GetAttr(f, "stops") = stops)

\* f.price raises AttributeError when the object has no such attribute
HasPrice(f) == "price" \in DOMAIN f

\* the sort key lambda f: parse_price(f.price), taken where f has a price
PriceKey(f) == parse_price(f.price)

\* the sort keys of a list, computed once per element as sorted() does
PriceKeys(flights_list) ==
    [i \in 1..Len(flights_list) |-> PriceKey(flights_list[i])] \o <<>>

\* the place sorted() gives element i: after every element with a smaller
\* key and after the earlier elements with an equal key (the sort is stable)
SortedPlace(keys, i) ==
    Cardinality({ j \in 1..Len(keys) :
                    \/ KeyLT(keys[j], keys[i])
                    \/ /\ ~KeyLT(keys[i], keys[j])
                       /\ j <= i })

\* sorted(flights_list, key=lambda f: parse_price(f.price))
SortedByPrice(flights_list) ==
    CHOOSE sorted \in
        { [k \in 1..Len(keys) |->
              flights_list[CHOOSE i \in 1..Len(keys) : SortedPlace(keys, i) = k]]
            \o <<>> :
          keys \in {PriceKeys(flights_list)} } : TRUE

\* flights_list[:limit]
SliceLimit(flights_list, limit) ==
    IF IsNone(limit) THEN flights_list
    ELSE IF Val(limit) >= 0
    THEN SubSeq(flights_list, 1, Min(Val(limit), Len(flights_list)))
    ELSE SubSeq(flights_list, 1, Max(Len(flights_list) + Val(limit), 0))

\* result.flights if result and result.flights else []
FlightsOf(result) == IF IsNone(result) THEN <<>> ELSE Val(result).flights

\* flights_list after the stop filter (lines 320-322)
Filtered(result, stops) ==
    IF IsNone(stops) THEN FlightsOf(result)
    ELSE FilterStops(FlightsOf(result), stops)

AttributeErrorPrice ==
    [type |-> "AttributeError",
     detail |-> << "'", "F", "l", "i", "g", "h", "t", "'", " ", "o", "b", "j", "e", "c", "t", " ", "h", "a", "s", " ", "n", "o", " ", "a", "t", "t", "r", "i", "b", "u", "t", "e", " ", "'", "p", "r", "i", "c", "e", "'" >>]

\* whether lines 319-331 raise: the sort key reads f.price of every kept offer
ProcessRaises(result, stops, sort_cheapest) ==
    sort_cheapest /\ \E i \in 1..Len(Filtered(result, stops)) :
                        ~HasPrice(Filtered(result, stops)[i])

\* processed_flights (line 326), defined when ProcessRaises is false
ProcessedFlights(result, stops, sort_cheapest, limit) ==
    CHOOSE processed_flights \in
        { [i \in 1..Len(cut) |-> flight_to_dict(cut[i])] :
            cut \in { SliceLimit(ordered, limit) :
                ordered \in { IF sort_cheapest THEN SortedByPrice(kept) ELSE kept :
                    kept \in {Filtered(result, stops)} } } } : TRUE

(***************************************************************************)
(* The except handler of the scan loop                                     *)
(***************************************************************************)
DetailLimit == 100

\* the message without the pair's dates
ErrMsgNoDates(depart_date, return_date, e) ==
    << "Error fetching flights: ", e.type,
       ". Check server logs for details: ",
       SubSeq(e.detail, 1, Min(DetailLimit, Len(e.detail))), "..." >>

\* the f-string of line 337, segment by segment
ErrMsg(depart_date, return_date, e) ==
    << "Error fetching flights for ", Strftime(depart_date), " -> ",
       Strftime(return_date), ": ", e.type,
       ". Check server logs for details: ",
       SubSeq(e.detail, 1, Min(DetailLimit, Len(e.detail))), "..." >>

\* the new message put at the front of the list
PrependUnique(msgs, err_msg) ==
    IF \E i \in 1..Len(msgs) : msgs[i] = err_msg THEN msgs
    ELSE <<err_msg>> \o msgs

\* if err_msg not in error_messages: error_messages.append(err_msg)
AppendUnique(msgs, err_msg) ==
    IF \E i \in 1..Len(msgs) : msgs[i] = err_msg THEN msgs
    ELSE Append(msgs, err_msg)

(***************************************************************************)
(* Date-pair enumeration (lines 273-295)                                   *)
(***************************************************************************)
\* the loop adds a day to every date it appends, the last one (end_date)
\* included, before it tests the sum: line 277 raises when a sum overflows
DateListRaises(start, end) ==
    \E k \in 1..(ToOrdinal(end) - ToOrdinal(start) + 1) :
        AddDaysOverflows(start, k)

\* while current_date <= end_date: date_list.append(current_date) and
\* current_date += timedelta(days=1): the k-th date appended is start_date
\* plus k - 1 days, and the loop stops after the one equal to end_date.
\* The result is [dates |-> date_list], or the exception of line 277
DateList(start, end) ==
    IF DateListRaises(start, end) THEN [raises |-> OverflowErrorDate]
    ELSE [dates |->
            [k \in 1..(ToOrdinal(end) - ToOrdinal(start) + 1) |->
                AddDays(start, k - 1)] \o <<>>]

\* valid_stay for one candidate pair (lines 286-291)
ValidStay(depart_date, return_date, min_stay, max_stay) ==
    LET stay_duration == StayDuration(depart_date, return_date)
    IN  /\ ~(~IsNone(min_stay) /\ stay_duration < Val(min_stay))
        /\ ~(~IsNone(max_stay) /\ stay_duration > Val(max_stay))

RECURSIVE ReturnLoop(_, _, _, _, _)
\* the inner loop, from index j of date_list on, for the departure at index i
ReturnLoop(date_list, i, j, min_stay, max_stay) ==
    IF j > Len(date_list) THEN <<>>
    ELSE (IF ValidStay(date_list[i], date_list[j], min_stay, max_stay)
          THEN << <<date_list[i], date_list[j]>> >> ELSE <<>>)
         \o ReturnLoop(date_list, i, j + 1, min_stay, max_stay)

\* for j, return_date in enumerate(date_list[i:]): the returns start at i
ReturnsFor(date_list, i, min_stay, max_stay) ==
    ReturnLoop(date_list, i, i, min_stay, max_stay)

RECURSIVE DepartLoop(_, _, _, _)
\* the outer loop, from index i of date_list on
DepartLoop(date_list, i, min_stay, max_stay) ==
    IF i > Len(date_list) THEN <<>>
    ELSE ReturnsFor(date_list, i, min_stay, max_stay)
         \o DepartLoop(date_list, i + 1, min_stay, max_stay)

\* date_pairs_to_check as built from start_date and end_date (lines
\* 273-295): [pairs |-> the list], or the exception of line 277
DatePairs(start, end, min_stay, max_stay) ==
    CHOOSE r \in { IF Raises(date_list) THEN date_list
                   ELSE [pairs |-> DepartLoop(date_list.dates, 1, min_stay, max_stay)] :
                   date_list \in {DateList(start, end)} } : TRUE

(***************************************************************************)
(* The inputs the model draws from                                         *)
(***************************************************************************)
ScanSpan == 2
MaxStay == 1
MaxOffers == 3
MaxLimit == 2

BaseDate == [year |-> 2025, month |-> 9, day |-> 29]

\* the windows the valid inputs are taken from: ScanSpan + 1 days from
\* BaseDate, the last two days a date can hold, and the two days around the
\* first four-digit year
Windows ==
    { [base |-> BaseDate, span |-> ScanSpan],
      [base |-> [year |-> 9999, month |-> 12, day |-> 30], span |-> 1],
      [base |-> [year |-> 999, month |-> 12, day |-> 31], span |-> 1] }

\* the k-th day of the window from BaseDate
Day(k) == AddDays(BaseDate, k)

\* a date written YYYY-MM-DD, the year on four digits
IsoText(d) ==
    << DigitChar(d.year \div 1000), DigitChar((d.year \div 100) % 10),
       DigitChar((d.year \div 10) % 10), DigitChar(d.year % 10), "-",
       DigitChar(d.month \div 10), DigitChar(d.month % 10), "-",
       DigitChar(d.day \div 10), DigitChar(d.day % 10) >>

\* 2025-9-29: strptime also takes a month without its leading zero
UnpaddedBase == << "2", "0", "2", "5", "-", "9", "-", "2", "9" >>

\* 2025-09-29 with the year and the last digit in Arabic-Indic digits
ArabicIndicBase ==
    << "U+0662", "U+0660", "U+0662", "U+0665", "-", "0", "9", "-", "2", "U+0669" >>

\* the texts of day k of window w among the inputs
DateTexts(w, k) ==
    {IsoText(d) : d \in {AddDays(w.base, k)}}
        \cup (IF w.base = BaseDate /\ k = 0
              THEN {UnpaddedBase, ArabicIndicBase} ELSE {})

WindowTexts(w) == UNION {DateTexts(w, k) : k \in 0..w.span}

GoodDateStrs == UNION {WindowTexts(w) : w \in Windows}

\* no month 13, no 31st of September, not the format, and a month in
\* Arabic-Indic digits (the month field takes ASCII digits only)
BadDateStrs ==
    { << "2", "0", "2", "5", "-", "1", "3", "-", "0", "1" >>,
      << "2", "0", "2", "5", "-", "0", "9", "-", "3", "1" >>,
      << "0", "9", "/", "2", "9", "/", "2", "0", "2", "5" >>,
      << "2", "0", "2", "5", "-", "0", "U+0669", "-", "2", "9" >> }

\* the two date arguments of a call: texts of one window, or texts that
\* do not parse
DateStrPairs ==
    UNION { (WindowTexts(w) \cup BadDateStrs) \X (WindowTexts(w) \cup BadDateStrs) :
            w \in Windows }

StayChoices == {None} \cup {Some(n) : n \in 0..MaxStay}

\* flight objects: the attributes the provider set on each
OfferA == [name |-> Some("A"), stops |-> Some(0),
           price |-> Some(<< "$", "5", "0", "0" >>)]
OfferB == [name |-> Some("B"), stops |-> Some(0),
           price |-> Some(<< "$", "2", "0", "0" >>)]
OfferC == [name |-> Some("C"), stops |-> Some(1),
           price |-> Some(<< "2", "0", "0" >>)]
OfferD == [name |-> Some("D"), price |-> Some(<< "$", "1", ",", "2", "0", "0" >>)]
OfferE == [name |-> Some("E"), stops |-> Some(0)]
OfferF == [name |-> Some("F"), stops |-> Some(0), price |-> None]
OfferG == [name |-> Some("G"), stops |-> None,
           price |-> Some(<< "a", "b", "c" >>)]
\* a no-break space, then $ and 200 with an Arabic-Indic 2
OfferH == [name |-> Some("H"), stops |-> Some(0),
           price |-> Some(<< "U+00A0", "$", "U+0662", "0", "0" >>)]

Offers == {OfferA, OfferB, OfferC, OfferD, OfferE, OfferF, OfferG, OfferH}

OfferLists == UNION {[1..n -> Offers] : n \in 0..MaxOffers}

\* what get_flights may return: None, or a result object with its flights
ProcResults == {None} \cup {Some([flights |-> l]) : l \in OfferLists}

RuntimeErrorNoFlights ==
    [type |-> "RuntimeError", detail |-> << "N", "o", " ", "f", "l", "i", "g", "h", "t", "s", " ", "f", "o", "u", "n", "d" >>]

\* an exception whose text is longer than the handler keeps
TimeoutErrorLong ==
    [type |-> "TimeoutError", detail |-> [i \in 1..(DetailLimit + 1) |-> "x"]]

\* an exception that is not an Exception
KeyboardInterruptStop ==
    [type |-> "KeyboardInterrupt", detail |-> << "s", "t", "o", "p" >>]

\* the provider of one scan: what it returns when a query succeeds and what
\* it raises when a query fails
ScanProviders ==
    { [returns |-> Some([flights |-> <<OfferA, OfferB>>]),
       raises |-> RuntimeErrorNoFlights],
      [returns |-> Some([flights |-> <<OfferB, OfferE>>]),
       raises |-> TimeoutErrorLong],
      [returns |-> Some([flights |-> <<OfferA, OfferB>>]),
       raises |-> KeyboardInterruptStop] }

\* sort_cheapest, stops, limit of a scan
ScanOptions ==
    { [sort_cheapest |-> FALSE, stops |-> None, limit |-> None],
      [sort_cheapest |-> TRUE, stops |-> None, limit |-> Some(1)],
      [sort_cheapest |-> TRUE, stops |-> Some(0), limit |-> None] }

(***************************************************************************)
(* State                                                                   *)
(***************************************************************************)
VARIABLES
    pc,                  \* where the call is
    start_date_str, end_date_str, min_stay_days, max_stay_days,
    sort_cheapest, stops, limit,        \* arguments of the call
    provider,            \* the provider's behaviour during this call
    start_date, end_date,               \* parsed dates, None before parsing
    date_pairs_to_check, \* the enumerated pairs
    count,               \* pairs taken from date_pairs_to_check so far
    result,              \* what get_flights returned for the current pair
    results_data, error_messages,       \* the two lists the scan builds
    response,            \* the returned document, before json.dumps, or
                         \* the exception that left the call
    calls,               \* history: the legs of every get_flights call
    outcomes             \* history: <<"ok">> or <<"raised", e>> per finished pair

vars == << pc, start_date_str, end_date_str, min_stay_days, max_stay_days,
           sort_cheapest, stops, limit, provider, start_date, end_date,
           date_pairs_to_check, count, result, results_data, error_messages,
           response, calls, outcomes >>

args == << start_date_str, end_date_str, min_stay_days, max_stay_days,
           sort_cheapest, stops, limit, provider >>

NoResponse == [pending |-> TRUE]

Init ==
    /\ pc = "validating"
    /\ \E texts \in DateStrPairs :
          /\ start_date_str = texts[1]
          /\ end_date_str = texts[2]
    /\ min_stay_days \in StayChoices
    /\ max_stay_days \in StayChoices
    /\ \E o \in ScanOptions :
          /\ sort_cheapest = o.sort_cheapest
          /\ stops = o.stops
          /\ limit = o.limit
    /\ provider \in ScanProviders
    /\ start_date = None
    /\ end_date = None
    /\ date_pairs_to_check = <<>>
    /\ count = 0
    /\ result = None
    /\ results_data = <<>>
    /\ error_messages = <<>>
    /\ response = NoResponse
    /\ calls = <<>>
    /\ outcomes = <<>>

(***************************************************************************)
(* Validation (lines 260-271)                                              *)
(***************************************************************************)
ErrorPayload(message) == [error |-> [message |-> message, type |-> "ValueError"]]

\* strptime raises ValueError on either argument
RejectFormat ==
    /\ pc = "validating"
    /\ ~Strptime(start_date_str).ok \/ ~Strptime(end_date_str).ok
    /\ response' = ErrorPayload("Invalid date format. Use YYYY-MM-DD.")
    /\ pc' = "rejected"
    /\ UNCHANGED << args, start_date, end_date, date_pairs_to_check, count,
                    result, results_data, error_messages, calls, outcomes >>

\* both parse and start_date > end_date
RejectRange ==
    /\ pc = "validating"
    /\ Strptime(start_date_str).ok /\ Strptime(end_date_str).ok
    /\ DateGT(Strptime(start_date_str).date, Strptime(end_date_str).date)
    /\ response' = ErrorPayload("Start date cannot be after end date.")
    /\ pc' = "rejected"
    /\ UNCHANGED << args, start_date, end_date, date_pairs_to_check, count,
                    result, results_data, error_messages, calls, outcomes >>

\* both parse and start_date <= end_date
Accept ==
    /\ pc = "validating"
    /\ Strptime(start_date_str).ok /\ Strptime(end_date_str).ok
    /\ ~DateGT(Strptime(start_date_str).date, Strptime(end_date_str).date)
    /\ start_date' = Some(Strptime(start_date_str).date)
    /\ end_date' = Some(Strptime(end_date_str).date)
    /\ pc' = "enumerating"
    /\ UNCHANGED << args, date_pairs_to_check, count, result, results_data,
                    error_messages, response, calls, outcomes >>

(***************************************************************************)
(* Enumeration (lines 273-298)                                             *)
(***************************************************************************)
Enumerate ==
    /\ pc = "enumerating"
    /\ \E date_list \in {DateList(Val(start_date), Val(end_date))} :
          /\ ~Raises(date_list)
          /\ IF date_list.dates = <<>>
             THEN /\ response' = [error |-> "No valid dates in the specified range."]
                  /\ pc' = "rejected"
                  /\ UNCHANGED date_pairs_to_check
             ELSE /\ date_pairs_to_check' =
                        DatePairs(Val(start_date), Val(end_date),
                                  min_stay_days, max_stay_days).pairs
                  /\ pc' = "scanning"
                  /\ UNCHANGED response
    /\ count' = 0
    /\ UNCHANGED << args, start_date, end_date, result, results_data,
                    error_messages, calls, outcomes >>

\* line 277 raises OverflowError, outside any try: the exception leaves the
\* call, which returns no document
EnumerateRaises ==
    /\ pc = "enumerating"
    /\ \E date_list \in {DateList(Val(start_date), Val(end_date))} :
          /\ Raises(date_list)
          /\ response' = [raised |-> date_list.raises]
    /\ pc' = "raised"
    /\ UNCHANGED << args, start_date, end_date, date_pairs_to_check, count,
                    result, results_data, error_messages, calls, outcomes >>

(***************************************************************************)
(* The scan loop (lines 300-339)                                           *)
(***************************************************************************)
depart_date == date_pairs_to_check[count][1]
return_date == date_pairs_to_check[count][2]

\* flight_data of lines 306-309
FlightLegs(depart, ret) ==
    << [date |-> Strftime(depart), from_airport |-> "origin",
        to_airport |-> "destination"],
       [date |-> Strftime(ret), from_airport |-> "destination",
        to_airport |-> "origin"] >>

\* the loop takes the next pair and calls get_flights for it
CallProvider ==
    /\ pc = "scanning"
    /\ count < Len(date_pairs_to_check)
    /\ count' = count + 1
    /\ calls' = Append(calls, FlightLegs(date_pairs_to_check[count + 1][1],
                                         date_pairs_to_check[count + 1][2]))
    /\ pc' = "calling"
    /\ UNCHANGED << args, start_date, end_date, date_pairs_to_check, result,
                    results_data, error_messages, response, outcomes >>

\* get_flights returns
ProviderReturns ==
    /\ pc = "calling"
    /\ result' = provider.returns
    /\ pc' = "processing"
    /\ UNCHANGED << args, start_date, end_date, date_pairs_to_check, count,
                    results_data, error_messages, response, calls, outcomes >>

\* the built-in exception classes that derive from BaseException and not
\* from Exception: `except Exception` does not match them
NotExceptions ==
    { "BaseException", "BaseExceptionGroup", "GeneratorExit",
      "KeyboardInterrupt", "SystemExit", "CancelledError" }

\* isinstance(e, Exception), for an exception of a built-in class
IsException(e) == e.type \notin NotExceptions

\* no except clause matches e: the exception leaves the call, which returns
\* no document; the pair in hand is left unfinished
Propagate(e) ==
    /\ response' = [raised |-> e]
    /\ pc' = "raised"
    /\ UNCHANGED << args, start_date, end_date, date_pairs_to_check, count,
                    result, results_data, error_messages, calls, outcomes >>

\* a handler that also appends an entry (no offers, the error) for the pair
HandlerRecordsFailure(e) ==
    IF IsException(e)
    THEN /\ error_messages' =
               AppendUnique(error_messages, ErrMsg(depart_date, return_date, e))
         /\ results_data' =
               Append(results_data,
                      [departure_date |-> Strftime(depart_date),
                       return_date |-> Strftime(return_date),
                       flights |-> <<>>,
                       error |-> ErrMsg(depart_date, return_date, e)])
         /\ outcomes' = Append(outcomes, <<"raised", e>>)
         /\ result' = None
         /\ pc' = "scanning"
         /\ UNCHANGED << args, start_date, end_date, date_pairs_to_check, count,
                         response, calls >>
    ELSE Propagate(e)

\* except Exception as e (lines 333-339): the message of an Exception is
\* recorded once, the results are left as they are, and the loop goes on to
\* the next pair; any other exception is not caught
Handler(e) ==
    IF IsException(e)
    THEN /\ error_messages' =
               AppendUnique(error_messages, ErrMsg(depart_date, return_date, e))
         /\ outcomes' = Append(outcomes, <<"raised", e>>)
         /\ result' = None
         /\ pc' = "scanning"
         /\ UNCHANGED << args, start_date, end_date, date_pairs_to_check, count,
                         results_data, response, calls >>
    ELSE Propagate(e)

\* get_flights raises
ProviderRaises ==
    /\ pc = "calling"
    /\ Handler(provider.raises)

\* lines 319-331 raise: the sort key finds an offer without a price attribute
ProcessingRaises ==
    /\ pc = "processing"
    /\ ProcessRaises(result, stops, sort_cheapest)
    /\ Handler(AttributeErrorPrice)

\* the entry appended at lines 327-331
ResultEntry(depart, ret, processed_flights) ==
    [departure_date |-> Strftime(depart), return_date |-> Strftime(ret),
     flights |-> processed_flights]

\* lines 319-331 complete
ProcessingDone ==
    /\ pc = "processing"
    /\ ~ProcessRaises(result, stops, sort_cheapest)
    /\ \E processed_flights \in
            {ProcessedFlights(result, stops, sort_cheapest, limit)} :
          results_data' =
              Append(results_data,
                     ResultEntry(depart_date, return_date, processed_flights))
    /\ outcomes' = Append(outcomes, <<"ok">>)
    /\ result' = None
    /\ pc' = "scanning"
    /\ UNCHANGED << args, start_date, end_date, date_pairs_to_check, count,
                    error_messages, response, calls >>

(***************************************************************************)
(* The returned document (lines 343-356)                                   *)
(***************************************************************************)
NoFlightsMessage ==
    << "No flights found and no errors encountered for ", "origin", " -> ",
       "destination", " in the range ", start_date_str, " to ", end_date_str,
       "." >>

\* error_messages if error_messages else None
ErrorsOrNone(msgs) == IF msgs # <<>> THEN Some(msgs) ELSE None

Report(results, msgs) ==
    IF results # <<>> \/ msgs # <<>>
    THEN [all_round_trip_options |-> results,
          errors_encountered |-> ErrorsOrNone(msgs)]
    ELSE [message |-> NoFlightsMessage,
          errors_encountered |-> ErrorsOrNone(msgs)]

Assemble ==
    /\ pc = "scanning"
    /\ count = Len(date_pairs_to_check)
    /\ response' = Report(results_data, error_messages)
    /\ pc' = "done"
    /\ UNCHANGED << args, start_date, end_date, date_pairs_to_check, count,
                    result, results_data, error_messages, calls, outcomes >>

Next ==
    \/ RejectFormat
    \/ RejectRange
    \/ Accept
    \/ Enumerate
    \/ EnumerateRaises
    \/ CallProvider
    \/ ProviderReturns
    \/ ProviderRaises
    \/ ProcessingRaises
    \/ ProcessingDone
    \/ Assemble

Spec == Init /\ [][Next]_vars

\* a started call runs on: every step of the handler is taken in the end
LiveSpec == Init /\ [][Next]_vars /\ WF_vars(Next)

(***************************************************************************)
(* Offer processing on its own: one pair whose get_flights call has        *)
(* returned, over every offer list up to MaxOffers and every option        *)
(***************************************************************************)
ProcInit ==
    /\ pc = "processing"
    /\ start_date_str = Strftime(BaseDate)
    /\ end_date_str = Strftime(BaseDate)
    /\ min_stay_days = None
    /\ max_stay_days = None
    /\ sort_cheapest \in BOOLEAN
    /\ stops \in {None, Some(0), Some(1)}
    /\ limit \in {None} \cup {Some(n) : n \in 0..MaxLimit}
    /\ result \in ProcResults
    /\ provider = [returns |-> result, raises |-> RuntimeErrorNoFlights]
    /\ start_date = Some(BaseDate)
    /\ end_date = Some(BaseDate)
    /\ date_pairs_to_check = << <<BaseDate, BaseDate>> >>
    /\ count = 1
    /\ results_data = <<>>
    /\ error_messages = <<>>
    /\ response = NoResponse
    /\ calls = << FlightLegs(BaseDate, BaseDate) >>
    /\ outcomes = <<>>

ProcNext ==
    \/ ProcessingRaises
    \/ ProcessingDone
    \/ Assemble

ProcSpec == ProcInit /\ [][ProcNext]_vars

(***************************************************************************)
(* What the properties are stated in: the window by day offsets, the pairs *)
(* by their indices, the outcome of every finished pair                    *)
(***************************************************************************)
BaseOrdinal == ToOrdinal(BaseDate)

\* a date as its distance in days from BaseDate
OffsetOfDate(d) == ToOrdinal(d) - BaseOrdinal

\* every valid input text with the offset of the day it names
OffsetTexts ==
    UNION { UNION { {<< t, OffsetOfDate(AddDays(w.base, k)) >> : t \in DateTexts(w, k)} :
                    k \in 0..w.span } : w \in Windows }

Offsets == {x[2] : x \in OffsetTexts}

\* the offsets of the day a valid input text names (one, or none)
OffsetsOfText(t) == {k \in Offsets : << t, k >> \in OffsetTexts}

\* the enumerated pairs, each as its two day offsets
PairOffsets ==
    [i \in 1..Len(date_pairs_to_check) |->
        << OffsetOfDate(date_pairs_to_check[i][1]),
           OffsetOfDate(date_pairs_to_check[i][2]) >>] \o <<>>

InputsValid == start_date_str \in GoodDateStrs /\ end_date_str \in GoodDateStrs

StartAfterEnd ==
    \E s \in OffsetsOfText(start_date_str), e \in OffsetsOfText(end_date_str) :
        s > e

\* stay bounds, inclusive, on a stay of n days
WithinStay(n) ==
    /\ IsNone(min_stay_days) \/ Val(min_stay_days) <= n
    /\ IsNone(max_stay_days) \/ n <= Val(max_stay_days)

\* {(d,r): start <= d <= r <= end, stay bounds satisfied}, by offsets
ExpectedOffsets ==
    UNION { { x \in (s..e) \X (s..e) :
                x[1] <= x[2] /\ WithinStay(x[2] - x[1]) } :
            s \in OffsetsOfText(start_date_str), e \in OffsetsOfText(end_date_str) }

NPairs == Len(date_pairs_to_check)

Raised(i) == outcomes[i][1] = "raised"
RaisedCount == Cardinality({i \in 1..Len(outcomes) : Raised(i)})

RECURSIVE OkIndices(_)
\* the indices of the first n pairs that finished without an exception
OkIndices(n) ==
    IF n = 0 THEN <<>>
    ELSE IF Raised(n) THEN OkIndices(n - 1) ELSE Append(OkIndices(n - 1), n)

RECURSIVE RaisedMessages(_)
\* the rendered messages of the first n pairs that raised, in pair order
RaisedMessages(n) ==
    IF n = 0 THEN <<>>
    ELSE IF Raised(n)
    THEN Append(RaisedMessages(n - 1),
                ErrMsg(date_pairs_to_check[n][1], date_pairs_to_check[n][2],
                       outcomes[n][2]))
    ELSE RaisedMessages(n - 1)

RECURSIVE FirstOccurrences(_)
\* a sequence with every repetition of an earlier element dropped
FirstOccurrences(q) ==
    IF q = <<>> THEN <<>>
    ELSE LET front == FirstOccurrences(SubSeq(q, 1, Len(q) - 1))
         IN  IF \E i \in 1..Len(front) : front[i] = q[Len(q)]
             THEN front ELSE Append(front, q[Len(q)])

NoRepeats(q) == \A i, j \in 1..Len(q) : i # j => q[i] # q[j]

IsReport == "all_round_trip_options" \in DOMAIN response
IsErrorObject == "error" \in DOMAIN response
IsMessage == "message" \in DOMAIN response

(***************************************************************************)
(* C1                                                                      *)
(***************************************************************************)
\* C1, as stated: when the scan is done and exactly one of the N enumerated
\* pairs failed, results_data has N entries, one per pair.
C1_FailedPairHasEntry ==
    (pc = "done" /\ RaisedCount = 1) => Len(results_data) = NPairs

\* C1, amended: when the scan is done, results_data holds one entry per
\* pair that finished without an exception, in enumeration order, with the
\* pair's two dates and its offers and no error field; a pair that raised has
\* no entry, so one failure among N pairs leaves N - 1 entries, and its
\* message is in error_messages.
C1_FailureIsolation ==
    pc = "done" =>
        /\ Len(outcomes) = NPairs
        /\ Len(results_data) = NPairs - RaisedCount
        /\ Len(results_data) = Len(OkIndices(NPairs))
        /\ \A k \in 1..Len(results_data) :
              LET i == OkIndices(NPairs)[k]
              IN  /\ DOMAIN results_data[k] =
                        {"departure_date", "return_date", "flights"}
                  /\ results_data[k].departure_date =
                        Strftime(date_pairs_to_check[i][1])
                  /\ results_data[k].return_date =
                        Strftime(date_pairs_to_check[i][2])
        /\ \A i \in 1..NPairs :
              Raised(i) =>
                 \E k \in 1..Len(error_messages) :
                    error_messages[k] =
                       ErrMsg(date_pairs_to_check[i][1],
                              date_pairs_to_check[i][2], outcomes[i][2])

C1_Witness ==
    /\ pc = "done"
    /\ NPairs >= 3
    /\ RaisedCount = 1
    /\ Raised(2)
    /\ Len(results_data) = NPairs - 1

(***************************************************************************)
(* C2                                                                      *)
(***************************************************************************)
\* the calls made so far are the calls for the first pairs, in order
CallsInOrder ==
    /\ Len(calls) <= NPairs
    /\ \A i \in 1..Len(calls) :
          calls[i] = FlightLegs(date_pairs_to_check[i][1],
                                date_pairs_to_check[i][2])

\* the pair in hand is still in the try block, or an exception of its query
\* has left the call
PairUnfinished ==
    \/ pc \in {"calling", "processing"}
    \/ pc = "raised" /\ calls # <<>>

\* a call is made only when every earlier pair has finished
OneAtATime ==
    /\ Len(calls) = count
    /\ Len(outcomes) = (IF PairUnfinished THEN count - 1 ELSE count)

\* C2: a call that has passed validation reaches done, and by then
\* get_flights has been called exactly once for every enumerated pair, in
\* enumeration order and one call at a time, whichever calls failed.  A call
\* whose end date is date.max passes validation and is left by the
\* OverflowError of line 277: it never reaches done.  Nor does a call whose
\* query raises an exception that is not an Exception.
C2_EveryPairAttempted ==
    /\ [](CallsInOrder /\ OneAtATime)
    /\ [](pc = "enumerating" =>
            <>(pc = "done" /\ Len(calls) = NPairs /\ Len(outcomes) = NPairs))

(***************************************************************************)
(* C3                                                                      *)
(***************************************************************************)
\* C3: error_messages never holds the same string twice and is, in order of
\* first insertion, the rendered messages of the pairs that raised.
C3_ErrorsDeduplicated ==
    /\ NoRepeats(error_messages)
    /\ error_messages = FirstOccurrences(RaisedMessages(Len(outcomes)))

C3_Witness ==
    /\ Len(error_messages) >= 2
    /\ \E i, j \in 1..Len(outcomes) :
          i < j /\ Raised(i) /\ Raised(j) /\ outcomes[i][2] = outcomes[j][2]

(***************************************************************************)
(* C4                                                                      *)
(***************************************************************************)
\* C4: when either date text is not a calendar date, or the start is after
\* the end, the call ends rejected with one error object, having enumerated
\* no pair and called get_flights for none.
C4_BadInputRejected ==
    (/\ pc # "validating"
     /\ \/ start_date_str \in BadDateStrs
        \/ end_date_str \in BadDateStrs
        \/ StartAfterEnd)
    => /\ pc = "rejected"
       /\ IsErrorObject
       /\ DOMAIN response.error = {"message", "type"}
       /\ date_pairs_to_check = <<>>
       /\ calls = <<>>
       /\ results_data = <<>>

C4_Witness ==
    /\ pc = "rejected"
    /\ start_date_str = << "2", "0", "2", "5", "-", "1", "3", "-", "0", "1" >>
    /\ end_date_str \in GoodDateStrs
    /\ calls = <<>>

(***************************************************************************)
(* C5                                                                      *)
(***************************************************************************)
\* C5: for every accepted start <= end, the list of pairs the call builds is
\* exactly the pairs (d, r) of the window with start <= d <= r <= end whose
\* stay is within the bounds that are set, each once, ordered by departure
\* date and then by return date.  With date.max for end date the call is
\* left at line 277 with no list built.
C5_PairsEnumerated ==
    (pc \notin {"validating", "enumerating"} /\ InputsValid /\ ~StartAfterEnd) =>
        \E offs \in {PairOffsets}, expected \in {ExpectedOffsets} :
            /\ {offs[i] : i \in 1..NPairs} = expected
            /\ NPairs = Cardinality(expected)
            /\ \A a, b \in 1..NPairs :
                  a < b =>
                     \/ offs[a][1] < offs[b][1]
                     \/ offs[a][1] = offs[b][1] /\ offs[a][2] < offs[b][2]

(***************************************************************************)
(* C6                                                                      *)
(***************************************************************************)
\* C6: with valid dates, start <= end, and stay bounds that exclude every
\* pair, the call makes no get_flights call and returns the message
\* document, which is not an error object.  With date.max for end date the
\* call returns nothing: it is left by the OverflowError of line 277.
C6_EmptyEnumeration ==
    (/\ pc \notin {"validating", "enumerating"}
     /\ InputsValid
     /\ ~StartAfterEnd
     /\ ExpectedOffsets = {})
    => /\ pc \in {"scanning", "done"}
       /\ calls = <<>>
       /\ pc = "done" => (IsMessage /\ ~IsErrorObject /\ ~IsReport)

(***************************************************************************)
(* C10                                                                     *)
(***************************************************************************)
\* C10: after k pairs have gone through the loop body,
\* len(results_data) + len(error_messages) is k and len(error_messages) is
\* the number of pairs whose exception the handler caught; the returned
\* document is the report whenever a pair was attempted.  k is count at the
\* head of the loop, and count - 1 while the pair in hand is unfinished.
C10_Accounting ==
    /\ Len(results_data) + Len(error_messages) = Len(outcomes)
    /\ Len(outcomes) = (IF PairUnfinished THEN count - 1 ELSE count)
    /\ Len(error_messages) = RaisedCount
    /\ (pc = "done" /\ NPairs >= 1) => IsReport

C10_Witness ==
    /\ pc = "done"
    /\ NPairs >= 3
    /\ Len(results_data) >= 1
    /\ Len(error_messages) >= 2
    /\ IsReport

(***************************************************************************)
(* C7, C8, C9: the offers reported for the one pair of ProcSpec             *)
(***************************************************************************)
\* the pair has gone through lines 319-339
PairFinished == outcomes # <<>>

PairOk == PairFinished /\ outcomes[1][1] = "ok"

\* the offers the report carries for the pair
ReportedFlights == results_data[1].flights

\* the offers get_flights returned for the pair
ProviderOffers == FlightsOf(provider.returns)

\* the provider's offers whose stop count is the one asked for; an offer
\* without stop-count data has none
StopsMatch(f) ==
    IsNone(stops) \/ ("stops" \in DOMAIN f /\ f.stops = stops)

KeptOffers == SelectSeq(ProviderOffers, StopsMatch)

\* the price of a reported offer, parsed; None when it has no valid price
ValidPrice(d) == ~parse_price(d.price).inf
PriceOf(d) == parse_price(d.price)

IndexPerms(n) ==
    { f \in [1..n -> 1..n] : \A i, j \in 1..n : i # j => f[i] # f[j] }

\* out is the dicts of the offers of inp, reordered by price, cheapest
\* first, offers without a valid price last, equal prices in their order
IsStablePriceOrder(out, inp) ==
    /\ Len(out) = Len(inp)
    /\ \E f \in IndexPerms(Len(inp)) :
          /\ \A i \in 1..Len(inp) : out[i] = flight_to_dict(inp[f[i]])
          /\ \A i, j \in 1..Len(inp) :
                i < j =>
                   /\ ValidPrice(out[j]) => ValidPrice(out[i])
                   /\ (ValidPrice(out[i]) /\ ValidPrice(out[j]))
                         => ~KeyLT(PriceOf(out[j]), PriceOf(out[i]))
                   /\ (ValidPrice(out[i]) = ValidPrice(out[j])
                       /\ (ValidPrice(out[i]) => PriceOf(out[i]) = PriceOf(out[j])))
                         => f[i] < f[j]

\* the first n elements of q, all of them when n is None
FirstN(q, n) ==
    IF IsNone(n) THEN q ELSE SubSeq(q, 1, Min(Val(n), Len(q)))

\* C7: with sort_cheapest set and no limit, the offers reported for a pair
\* are the kept offers ordered by parsed price, non-decreasing, every offer
\* with a missing or unparsable price after every offer with a valid one,
\* equal prices in their original order.
C7_PriceSorting ==
    (PairFinished /\ sort_cheapest /\ IsNone(limit)) =>
        /\ PairOk
        /\ IsStablePriceOrder(ReportedFlights, KeptOffers)

\* C8: the offers reported for a pair are the first limit entries (all when
\* limit is None) of the kept offers, price-sorted when sort_cheapest is set;
\* offers without stop-count data are not kept when stops is set.
C8_Pipeline ==
    PairFinished =>
        /\ PairOk
        /\ \E ordered \in [1..Len(KeptOffers) -> {flight_to_dict(f) : f \in Offers}] :
              /\ IF sort_cheapest
                 THEN IsStablePriceOrder(ordered, KeptOffers)
                 ELSE ordered = [i \in 1..Len(KeptOffers) |->
                                    flight_to_dict(KeptOffers[i])]
              /\ ReportedFlights = FirstN(ordered, limit)

\* C9: processing the offers of a call that returned never turns the pair
\* into an error, whichever attributes the offers lack; no offers in, no
\* offers out.
C9_ProcessingNeverFails ==
    PairFinished =>
        /\ PairOk
        /\ error_messages = <<>>
        /\ ProviderOffers = <<>> => ReportedFlights = <<>>

=============================================================================
